---- MODULE Spec2Model ----
(***************************************************************************)
(* A model of catppuccin-customize (src/main.py): the edit rules (_Edit),  *)
(* their application to one palette color (_Colors.create), the palette    *)
(* build (Editor.edits, Editor.palette), the default command               *)
(* (Editor.__call__) and the substitution command (Replace.__call__).      *)
(*                                                                         *)
(* Abstractions.  A hex color "#rrggbb" is the string <<"#", h, s, l>>:    *)
(* one lowercase hex digit, of level 0..MaxDigit, per channel.  The        *)
(* conversion to the perceptual space reads digit d as the value           *)
(* d / MaxDigit of the channel; the conversion back fits the value into    *)
(* [0, 1] and rounds it half up to a digit, as the hex serialisation of    *)
(* the color library does with the 8-bit levels.  The two conversions are  *)
(* float computations and are not exact inverses: the value that reaches   *)
(* the rounding is off by an error of either sign, any of Errors, far      *)
(* smaller than half a level, so a value half way between two levels goes  *)
(* to either.  The rule arithmetic is in exact rationals <<numerator,      *)
(* denominator>>.  None is <<>> and a set optional value x is <<x>>.  A    *)
(* Python dict is the sequence of its <<key, value>> items in insertion    *)
(* order.                                                                  *)
(***************************************************************************)
EXTENDS Integers, Sequences, FiniteSets, TLC

\* The highest level of one hex digit of the model (255 for two real digits).
MaxDigit == 3

\* The longest rule list of the configurations of SpecCreate.
MaxEdits == 2

None == <<>>

Some(x) == <<x>>

HexDigits ==
  <<"0", "1", "2", "3", "4", "5", "6", "7", "8", "9", "a", "b", "c", "d", "e", "f">>

DigitChar(d) == HexDigits[d + 1]

CharDigit(ch) == (CHOOSE i \in 1..Len(HexDigits) : HexDigits[i] = ch) - 1

----------------------------------------------------------------------------
(* Rationals, standing for the floats of the program.                      *)

RatMul(a, b) == <<a[1] * b[1], a[2] * b[2]>>

RatAdd(a, b) == <<a[1] * b[2] + b[1] * a[2], a[2] * b[2]>>

Half == <<1, 2>>

Two == <<2, 1>>

----------------------------------------------------------------------------
(* The color library at its interface: _Color(hex).convert('okhsl'),       *)
(* c.convert('srgb').to_string(hex=True), and the channel names c.set      *)
(* accepts.                                                                *)

ChannelNames == {"h", "s", "l"}

\* The channel a rule's variable names, "" when the space has no such channel.
ChannelOf(variable) ==
  CASE variable \in {"h", "hue"} -> "h"
    [] variable \in {"s", "saturation"} -> "s"
    [] variable \in {"l", "lightness"} -> "l"
    [] OTHER -> ""

HexToOkhsl(hex) ==
  [h |-> <<CharDigit(hex[2]), MaxDigit>>,
   s |-> <<CharDigit(hex[3]), MaxDigit>>,
   l |-> <<CharDigit(hex[4]), MaxDigit>>]

\* The error the float conversions to okhsl and back leave on a channel.
Errors == {<<-1, 1000>>, <<0, 1>>, <<1, 1000>>}

QuantizeTruncate(v) ==
  IF v[1] <= 0 THEN 0
  ELSE IF v[1] >= v[2] THEN MaxDigit
  ELSE (v[1] * MaxDigit) \div v[2]

\* Gamut fit, then the level rounded half up.
Quantize(v) ==
  IF v[1] <= 0 THEN 0
  ELSE IF v[1] >= v[2] THEN MaxDigit
  ELSE (2 * v[1] * MaxDigit + v[2]) \div (2 * v[2])

\* The representation converted back with float error e, then serialised.
OkhslToHex(c, e) ==
  <<"#", DigitChar(Quantize(RatAdd(c.h, e))), DigitChar(Quantize(RatAdd(c.s, e))),
    DigitChar(Quantize(RatAdd(c.l, e)))>>

----------------------------------------------------------------------------
(* _Edit                                                                   *)

EditTypes == {"value", "multiply"}

EditCallAdd(edit, value) ==
  IF edit.type = "value" THEN edit.value
  ELSE <<value[1] * edit.value[2] + edit.value[1] * value[2], value[2] * edit.value[2]>>

\* _Edit.__call__ for the two modes that return.
EditCall(edit, value) ==
  IF edit.type = "value" THEN edit.value ELSE RatMul(value, edit.value)

\* _Edit.__call__: case _ raises ValueError.
EditRaises(edit) == edit.type \notin EditTypes

----------------------------------------------------------------------------
(* _Colors.create                                                          *)

MatchesAnd(edit, color) ==
  /\ edit.name \in {Some(color.name), Some(color.identifier)}
  /\ edit.accent = Some(color.accent)

\* edit.name in {color.name, color.identifier} or edit.accent == color.accent
Matches(edit, color) ==
  \/ edit.name \in {Some(color.name), Some(color.identifier)}
  \/ edit.accent = Some(color.accent)

\* The loop over the edits: the representation it leaves, or the exception.
RECURSIVE ApplyEdits(_, _, _)
ApplyEdits(c, color, edits) ==
  IF edits = <<>> THEN [c |-> c, err |-> "none"]
  ELSE LET edit == Head(edits)
           ch == ChannelOf(edit.variable)
       IN IF ~Matches(edit, color) THEN ApplyEdits(c, color, Tail(edits))
          ELSE IF ch = "" \/ EditRaises(edit) THEN [c |-> c, err |-> "ValueError"]
          ELSE ApplyEdits([c EXCEPT ![ch] = EditCall(edit, c[ch])], color, Tail(edits))

ColorsCreateErr(color, edits) == ApplyEdits(HexToOkhsl(color.hex), color, edits).err

\* e is the float error of this color's conversions.
ColorsCreate(color, edits, e) ==
  LET custom == OkhslToHex(ApplyEdits(HexToOkhsl(color.hex), color, edits).c, e)
  IN [name |-> color.identifier,
      original |-> color.hex,
      custom |-> custom,
      changed |-> color.hex # custom]

----------------------------------------------------------------------------
(* dict: the items in insertion order; a key set again keeps its place.    *)

DictSet(d, k, v) ==
  IF \E i \in 1..Len(d) : d[i][1] = k
  THEN [i \in 1..Len(d) |-> IF d[i][1] = k THEN <<k, v>> ELSE d[i]]
  ELSE Append(d, <<k, v>>)

RECURSIVE DictOf(_)
DictOf(items) ==
  IF items = <<>> THEN <<>>
  ELSE LET n == Len(items)
       IN DictSet(DictOf(SubSeq(items, 1, n - 1)), items[n][1], items[n][2])

----------------------------------------------------------------------------
(* _Flavor                                                                 *)

\* The exception of the first color whose create raises, "none" without one.
FlavorCreateErr(flavor, edits) ==
  IF \E i \in 1..Len(flavor.colors) : ColorsCreateErr(flavor.colors[i], edits) # "none"
  THEN "ValueError"
  ELSE "none"

\* es[i] is the float error of the conversions of color i.
FlavorCreate(flavor, edits, es) ==
  [name |-> flavor.identifier,
   colors |->
     [i \in 1..Len(flavor.colors) |-> ColorsCreate(flavor.colors[i], edits, es[i])]]

FlavorOriginal(f) ==
  DictOf([i \in 1..Len(f.colors) |-> <<f.colors[i].name, f.colors[i].original>>])

FlavorCustom(f) ==
  DictOf([i \in 1..Len(f.colors) |-> <<f.colors[i].name, f.colors[i].custom>>])

IsChanged(c) == c.changed

FlavorDict(f) ==
  LET cs == SelectSeq(f.colors, IsChanged)
  IN DictOf([i \in 1..Len(cs) |-> <<cs[i].original, cs[i].custom>>])

----------------------------------------------------------------------------
(* Paths and files                                                         *)

\* A path is its stem, as the sequence of the pieces it is built from, and
\* its suffix.
\* src.with_stem(f'{src.stem}-replaced')
WithStem(path, piece) == [path EXCEPT !.stem = Append(@, piece)]

SrcPath == [stem |-> <<"theme">>, suffix |-> ".css"]

OutPath == [stem |-> <<"out">>, suffix |-> ".css"]

TextPaths == {SrcPath, OutPath, WithStem(SrcPath, "-replaced")}

\* self.dst or self.src.with_stem(...): a Path is never falsy.
DstResolve(src, dst) == IF dst # None THEN dst[1] ELSE WithStem(src, "-replaced")

NoFile == [exists |-> FALSE, text |-> <<>>]

File(text) == [exists |-> TRUE, text |-> text]

ExistsNever(fs, path) == FALSE

\* Path.exists()
Exists(fs, path) == fs[path].exists

OutputStems == {"palette-original", "palette-custom", "palette-dict"}

OutputPaths == {[stem |-> s, suffix |-> x] : s \in OutputStems, x \in {".toml", ".json"}}

NoOutput == [exists |-> FALSE, obj |-> <<>>]

\* _write: the object encoded to <stem>.toml, then to <stem>.json.
Write(out, stem, obj) ==
  [p \in DOMAIN out |->
     IF p.stem = stem THEN [exists |-> TRUE, obj |-> obj] ELSE out[p]]

----------------------------------------------------------------------------
(* str.replace(prev, new) for a non-empty prev: every occurrence, found    *)
(* from the left, none overlapping an earlier one.                         *)

RECURSIVE StrReplaceFirst(_, _, _)
StrReplaceFirst(text, prev, new) ==
  IF Len(text) < Len(prev) THEN text
  ELSE IF SubSeq(text, 1, Len(prev)) = prev
       THEN new \o SubSeq(text, Len(prev) + 1, Len(text))
       ELSE <<Head(text)>> \o StrReplaceFirst(Tail(text), prev, new)

RECURSIVE StrReplace(_, _, _)
StrReplace(text, prev, new) ==
  IF Len(text) < Len(prev) THEN text
  ELSE IF SubSeq(text, 1, Len(prev)) = prev
       THEN new \o StrReplace(SubSeq(text, Len(prev) + 1, Len(text)), prev, new)
       ELSE <<Head(text)>> \o StrReplace(Tail(text), prev, new)

----------------------------------------------------------------------------
(* The palette dataset (catppuccin.PALETTE): flavors in the dataset's      *)
(* order, light before dark, each color with its human name, identifier,   *)
(* lowercase hex and accent flag; the hex values of a flavor are distinct. *)

Color(name, identifier, hex, accent) ==
  [name |-> name, identifier |-> identifier, hex |-> hex, accent |-> accent]

Latte ==
  [identifier |-> "latte", dark |-> FALSE,
   colors |-> <<Color("Blue", "blue", <<"#", "1", "2", "1">>, TRUE),
                Color("Text", "text", <<"#", "1", "1", "0">>, FALSE)>>]

Mocha ==
  [identifier |-> "mocha", dark |-> TRUE,
   colors |-> <<Color("Blue", "blue", <<"#", "1", "1", "1">>, TRUE),
                Color("Red", "red", <<"#", "1", "1", "2">>, TRUE),
                Color("Text", "text", <<"#", "3", "0", "2">>, FALSE)>>]

Datasets == {<<Latte, Mocha>>, <<Mocha>>, <<Latte>>}

----------------------------------------------------------------------------
(* The configuration file: unreadable, or a table of rule lists.           *)

Edit(variable, value, type, name, accent) ==
  [variable |-> variable, value |-> value, type |-> type, name |-> name,
   accent |-> accent]

Table(dark, light) ==
  LET keys == (IF dark # None THEN {"dark"} ELSE {})
                \cup (IF light # None THEN {"light"} ELSE {})
  IN [k \in keys |-> IF k = "dark" THEN dark[1] ELSE light[1]]

NoConf == [readable |-> FALSE, table |-> <<>>]

\* The rules of the configurations of Spec: a channel by its long name or an
\* unknown one, a mode or an unknown one, no filter, a name or an accent filter.
ConfEdits ==
  {Edit(v, Two, t, f[1], f[2]) :
     v \in {"lightness", "q"}, t \in {"value", "multiply", "bogus"},
     f \in {<<None, None>>, <<Some("blue"), None>>, <<None, Some(TRUE)>>}}

ConfLists == {None, Some(<<>>)} \cup {Some(<<e>>) : e \in ConfEdits}

Confs ==
  {NoConf} \cup {[readable |-> TRUE, table |-> Table(d, l)] : d \in ConfLists, l \in ConfLists}

\* The rules of the configurations of SpecCreate: valid channels and modes,
\* every combination of filters that occurs.
CreateEdits ==
  {Edit(v, m[2], m[1], f[1], f[2]) :
     v \in {"l", "s"},
     m \in {<<"value", Half>>, <<"multiply", Half>>, <<"multiply", Two>>},
     f \in {<<None, None>>, <<Some("blue"), None>>, <<None, Some(TRUE)>>,
            <<None, Some(FALSE)>>, <<Some("Text"), Some(TRUE)>>}}

CreateLists == UNION {[1..n -> CreateEdits] : n \in 0..MaxEdits}

----------------------------------------------------------------------------
(* The source texts of the substitution command.                           *)

SrcTexts ==
  {<<"#", "1", "1", "1">>,
   <<"#", "1", "1", "1", "x", "#", "1", "1", "2", "#", "1", "1", "1", "#", "1", "1">>,
   <<"#", "1", "2", "1", ";", "#", "3", "0", "2">>}

OldText == <<"o", "l", "d">>

----------------------------------------------------------------------------

VARIABLES
  argv,      \* the command line: cmd, src, dst (None when not given)
  dataset,   \* catppuccin.PALETTE
  conf,      \* the configuration file
  files0,    \* the text files when the command starts
  files,     \* the text files
  outputs,   \* the palette-*.toml and palette-*.json files
  pc,        \* the position of the command
  err,       \* the exception that ended the command, "none" without one
  edits,     \* Editor.edits, a cached property
  acc,       \* the dict Editor.palette is building
  reps,      \* per built flavor, the representation c of each color at line 62
  palette,   \* Editor.palette, a cached property
  colors,    \* Replace.__call__: colors
  text,      \* Replace.__call__: text
  i          \* the position of the loop in progress

vars ==
  <<argv, dataset, conf, files0, files, outputs, pc, err, edits, acc, reps,
    palette, colors, text, i>>

Unset == [set |-> FALSE, val |-> <<>>]

Cached(v) == [set |-> TRUE, val |-> v]

EditorArgv == [cmd |-> "editor", src |-> SrcPath, dst |-> None]

ReplaceArgvs ==
  {[cmd |-> "replace", src |-> SrcPath, dst |-> d] :
     d \in {None, Some(OutPath), Some(SrcPath)}}

SrcFiles == {NoFile} \cup {File(t) : t \in SrcTexts}

\* The file systems a command line is run in: the source there or not, the
\* resolved destination there or not.
FileSystems(a) ==
  IF a.cmd = "editor" THEN {[p \in TextPaths |-> NoFile]}
  ELSE {[p \in TextPaths |->
           IF p = a.src THEN sf
           ELSE IF p = DstResolve(a.src, a.dst) THEN df
           ELSE NoFile] : sf \in SrcFiles, df \in {NoFile, File(OldText)}}

Start(a, ds, cf, fs) ==
  /\ argv = a
  /\ dataset = ds
  /\ conf = cf
  /\ files0 = fs
  /\ files = fs
  /\ outputs = [p \in OutputPaths |-> NoOutput]
  /\ pc = IF a.cmd = "editor" THEN "palette" ELSE "dst"
  /\ err = "none"
  /\ edits = Unset
  /\ acc = <<>>
  /\ reps = <<>>
  /\ palette = Unset
  /\ colors = <<>>
  /\ text = <<>>
  /\ i = 1

Init ==
  \E a \in {EditorArgv} \cup ReplaceArgvs, ds \in Datasets, cf \in Confs :
    \E fs \in FileSystems(a) : Start(a, ds, cf, fs)

InitCreate ==
  \E es \in CreateLists :
    Start(EditorArgv, <<Mocha>>,
          [readable |-> TRUE, table |-> Table(Some(es), Some(<<>>))],
          [p \in TextPaths |-> NoFile])

----------------------------------------------------------------------------
(* Editor.edits and Editor.palette                                         *)

DecodeAny(table) == TRUE

\* msgspec.toml.decode(..., type=dict[str, tuple[_Edit, ...]]): the type field
\* of every rule is checked against Literal['value', 'multiply'].
DecodeValid(table) ==
  \A k \in DOMAIN table : \A j \in 1..Len(table[k]) : table[k][j].type \in EditTypes

EditsKeyDark(flavor) == "dark"

\* 'dark' if flavor.dark else 'light'
EditsKey(flavor) == IF flavor.dark THEN "dark" ELSE "light"

Fail(e) ==
  /\ pc' = "failed"
  /\ err' = e

\* self.edits, read for the first flavor of the comprehension.
LoadEdits ==
  /\ pc = "palette"
  /\ ~edits.set
  /\ i <= Len(dataset)
  /\ IF ~conf.readable THEN Fail("FileNotFoundError") /\ UNCHANGED edits
     ELSE IF ~DecodeValid(conf.table) THEN Fail("ValidationError") /\ UNCHANGED edits
     ELSE edits' = Cached(conf.table) /\ UNCHANGED <<pc, err>>
  /\ UNCHANGED <<argv, dataset, conf, files0, files, outputs, acc, reps, palette,
                 colors, text, i>>

\* One flavor of the comprehension of Editor.palette.
BuildFlavor ==
  /\ pc = "palette"
  /\ edits.set
  /\ i <= Len(dataset)
  /\ LET flavor == dataset[i]
         key == EditsKey(flavor)
     IN IF key \notin DOMAIN edits.val
        THEN Fail("KeyError") /\ UNCHANGED <<acc, reps, i>>
        ELSE IF FlavorCreateErr(flavor, edits.val[key]) # "none"
        THEN Fail(FlavorCreateErr(flavor, edits.val[key])) /\ UNCHANGED <<acc, reps, i>>
        ELSE /\ \E es \in [1..Len(flavor.colors) -> Errors] :
                  acc' = DictSet(acc, flavor.identifier,
                                 FlavorCreate(flavor, edits.val[key], es))
             /\ reps' = Append(reps,
                  [j \in 1..Len(flavor.colors) |->
                     ApplyEdits(HexToOkhsl(flavor.colors[j].hex), flavor.colors[j],
                                edits.val[key]).c])
             /\ i' = i + 1
             /\ UNCHANGED <<pc, err>>
  /\ UNCHANGED <<argv, dataset, conf, files0, files, outputs, edits, palette, colors,
                 text>>

\* The comprehension is over: the palette is cached and its reader goes on.
PaletteDone ==
  /\ pc = "palette"
  /\ i > Len(dataset)
  /\ palette' = Cached(acc)
  /\ pc' = IF argv.cmd = "editor" THEN "write_original" ELSE "colors"
  /\ UNCHANGED <<argv, dataset, conf, files0, files, outputs, err, edits, acc, reps,
                 colors, text, i>>

----------------------------------------------------------------------------
(* Editor.__call__                                                         *)

\* {k: v.original() for k, v in self.palette.items()}, and the like.
OriginalViews ==
  [j \in 1..Len(palette.val) |-> <<palette.val[j][1], FlavorOriginal(palette.val[j][2])>>]

CustomViews ==
  [j \in 1..Len(palette.val) |-> <<palette.val[j][1], FlavorCustom(palette.val[j][2])>>]

DictViews ==
  [j \in 1..Len(palette.val) |-> <<palette.val[j][1], FlavorDict(palette.val[j][2])>>]

WriteOriginalEarly ==
  /\ pc = "palette"
  /\ argv.cmd = "editor"
  /\ outputs' = Write(outputs, "palette-original", <<>>)
  /\ UNCHANGED <<argv, dataset, conf, files0, files, pc, err, edits, acc, reps,
                 palette, colors, text, i>>

WriteOriginal ==
  /\ pc = "write_original"
  /\ outputs' = Write(outputs, "palette-original", OriginalViews)
  /\ pc' = "write_custom"
  /\ UNCHANGED <<argv, dataset, conf, files0, files, err, edits, acc, reps, palette,
                 colors, text, i>>

WriteCustom ==
  /\ pc = "write_custom"
  /\ outputs' = Write(outputs, "palette-custom", CustomViews)
  /\ pc' = "write_dict"
  /\ UNCHANGED <<argv, dataset, conf, files0, files, err, edits, acc, reps, palette,
                 colors, text, i>>

WriteDict ==
  /\ pc = "write_dict"
  /\ outputs' = Write(outputs, "palette-dict", DictViews)
  /\ pc' = "done"
  /\ UNCHANGED <<argv, dataset, conf, files0, files, err, edits, acc, reps, palette,
                 colors, text, i>>

----------------------------------------------------------------------------
(* Replace.__call__                                                        *)

\* dst = self._dst()
ReplaceDst ==
  /\ pc = "dst"
  /\ IF Exists(files, DstResolve(argv.src, argv.dst))
     THEN Fail("FileExistsError")
     ELSE pc' = "palette" /\ UNCHANGED err
  /\ UNCHANGED <<argv, dataset, conf, files0, files, outputs, edits, acc, reps,
                 palette, colors, text, i>>

RECURSIVE Items(_)
\* Replace._colors: the items of every flavor's dict(), flavor after flavor.
Items(p) ==
  IF p = <<>> THEN <<>> ELSE FlavorDict(Head(p)[2]) \o Items(Tail(p))

\* colors = dict(self._colors())
ReplaceColors ==
  /\ pc = "colors"
  /\ colors' = DictOf(Items(palette.val))
  /\ pc' = "read"
  /\ UNCHANGED <<argv, dataset, conf, files0, files, outputs, err, edits, acc, reps,
                 palette, text, i>>

\* text = self.src.read_text()
ReplaceRead ==
  /\ pc = "read"
  /\ IF ~Exists(files, argv.src)
     THEN Fail("FileNotFoundError") /\ UNCHANGED <<text, i>>
     ELSE text' = files[argv.src].text /\ i' = 1 /\ pc' = "replace" /\ UNCHANGED err
  /\ UNCHANGED <<argv, dataset, conf, files0, files, outputs, edits, acc, reps,
                 palette, colors>>

\* One pair of the loop: text = text.replace(prev, new)
ReplaceStep ==
  /\ pc = "replace"
  /\ i <= Len(colors)
  /\ text' = StrReplace(text, colors[i][1], colors[i][2])
  /\ i' = i + 1
  /\ UNCHANGED <<argv, dataset, conf, files0, files, outputs, pc, err, edits, acc,
                 reps, palette, colors>>

ReplaceWriteInPlace ==
  /\ pc = "replace"
  /\ i > Len(colors)
  /\ files' = [files EXCEPT ![argv.src] = File(text)]
  /\ pc' = "done"
  /\ UNCHANGED <<argv, dataset, conf, files0, outputs, err, edits, acc, reps, palette,
                 colors, text, i>>

\* dst.write_text(text)
ReplaceWrite ==
  /\ pc = "replace"
  /\ i > Len(colors)
  /\ files' = [files EXCEPT ![DstResolve(argv.src, argv.dst)] = File(text)]
  /\ pc' = "done"
  /\ UNCHANGED <<argv, dataset, conf, files0, outputs, err, edits, acc, reps, palette,
                 colors, text, i>>

----------------------------------------------------------------------------

NextEditor ==
  \/ LoadEdits
  \/ BuildFlavor
  \/ PaletteDone
  \/ WriteOriginal
  \/ WriteCustom
  \/ WriteDict

NextReplace ==
  \/ ReplaceDst
  \/ ReplaceColors
  \/ ReplaceRead
  \/ ReplaceStep
  \/ ReplaceWrite

Next == NextEditor \/ NextReplace

Spec == Init /\ [][Next]_vars

SpecCreate == InitCreate /\ [][NextEditor]_vars

----------------------------------------------------------------------------
(* What the claims speak of, stated apart from the operators above.        *)

\* The rule list the flavor at position f of the dataset is built with.
RulesOf(f) == edits.val[IF dataset[f].dark THEN "dark" ELSE "light"]

\* The flavors built so far, and the colors of one.
BuiltFlavors == 1..Len(reps)

ColorsOf(f) == 1..Len(dataset[f].colors)

\* The value of channel ch of a hex color before any rule.
OriginalValue(hex, ch) ==
  LET at == CASE ch = "h" -> 2 [] ch = "s" -> 3 [] OTHER -> 4
  IN <<(CHOOSE d \in 0..15 : HexDigits[d + 1] = hex[at]), MaxDigit>>

\* Two rationals are the same number.
RatEq(a, b) == a[1] * b[2] = b[1] * a[2]

Unfiltered(e) == e.name = None /\ e.accent = None

\* The name filter is set and names the color, or the accent filter is set
\* and equals the color's accent flag.
Selects(e, color) ==
  \/ e.name # None /\ (e.name[1] = color.name \/ e.name[1] = color.identifier)
  \/ e.accent # None /\ e.accent[1] = color.accent

\* rule.apply(current)
Applied(e, current) ==
  IF e.type = "multiply"
  THEN <<current[1] * e.value[1], current[2] * e.value[2]>>
  ELSE e.value

\* The left fold of the selecting rules that target ch, from value v.
RECURSIVE Fold(_, _, _, _)
Fold(v, ch, color, rules) ==
  IF rules = <<>> THEN v
  ELSE LET n == Len(rules)
           before == Fold(v, ch, color, SubSeq(rules, 1, n - 1))
       IN IF rules[n].variable = ch /\ Selects(rules[n], color)
          THEN Applied(rules[n], before)
          ELSE before

----------------------------------------------------------------------------
(* C1.  A rule with neither filter set matches every color: built with a   *)
(* list of one such rule, every color's channel the rule names holds       *)
(* rule.apply(the original value).  The code matches no color with such a  *)
(* rule, and TLC refutes this statement.                                   *)
C1_UnfilteredRuleAppliesToEveryColor ==
  \A f \in BuiltFlavors :
    (Len(RulesOf(f)) = 1 /\ Unfiltered(RulesOf(f)[1])) =>
      \A j \in ColorsOf(f) :
        LET e == RulesOf(f)[1]
            color == dataset[f].colors[j]
        IN RatEq(reps[f][j][e.variable],
                 Applied(e, OriginalValue(color.hex, e.variable)))

C9_ChannelIsLeftFoldOfMatchingRules ==
  \A f \in BuiltFlavors : \A j \in ColorsOf(f) :
    LET color == dataset[f].colors[j]
        rules == RulesOf(f)
    IN /\ \A ch \in ChannelNames :
            RatEq(reps[f][j][ch], Fold(OriginalValue(color.hex, ch), ch, color, rules))
       /\ (/\ Len(rules) = 2
           /\ rules[1] = rules[2]
           /\ rules[1].type = "value"
           /\ Selects(rules[1], color)) =>
            reps[f][j][rules[1].variable] = rules[1].value
       /\ (/\ Len(rules) = 2
           /\ rules[1].type = "multiply"
           /\ rules[2].type = "multiply"
           /\ rules[1].variable = rules[2].variable
           /\ Selects(rules[1], color)
           /\ Selects(rules[2], color)) =>
            LET v == OriginalValue(color.hex, rules[1].variable)
                a == rules[1].value
                b == rules[2].value
            IN RatEq(reps[f][j][rules[1].variable],
                     <<v[1] * a[1] * b[1], v[2] * a[2] * b[2]>>)

\* Two matching rules on one channel whose order matters: a multiply rule after
\* an absolute one, which leaves value * factor and not the absolute value.
C9_Witness ==
  \E f \in BuiltFlavors : \E j \in ColorsOf(f) :
    LET color == dataset[f].colors[j]
        rules == RulesOf(f)
    IN /\ Len(rules) = 2
       /\ rules[1].variable = rules[2].variable
       /\ rules[1].type = "value"
       /\ rules[2].type = "multiply"
       /\ rules[2].value = Two
       /\ Selects(rules[1], color)
       /\ Selects(rules[2], color)
       /\ RatEq(reps[f][j][rules[1].variable], <<1, 1>>)

(* C10.  A rule with at least one filter set matches a color exactly when  *)
(* its name filter is set and equals the color's human name or identifier, *)
(* or its accent filter is set and equals the color's accent flag: built   *)
(* with a list of one such rule, a color the condition selects has the     *)
(* rule's channel at rule.apply(original) and the others untouched, and a  *)
(* color it does not select has every channel untouched.                   *)
C10_FilteredRuleMatchesByNameOrAccent ==
  \A f \in BuiltFlavors :
    (Len(RulesOf(f)) = 1 /\ ~Unfiltered(RulesOf(f)[1])) =>
      \A j \in ColorsOf(f) : \A ch \in ChannelNames :
        LET e == RulesOf(f)[1]
            color == dataset[f].colors[j]
            v == OriginalValue(color.hex, ch)
        IN IF Selects(e, color) /\ e.variable = ch
           THEN RatEq(reps[f][j][ch], Applied(e, v))
           ELSE reps[f][j][ch] = v

\* A rule with both filters set, built into a flavor one of whose colors meets
\* only the name filter, another only the accent filter: both are changed.
C10_Witness ==
  \E f \in BuiltFlavors : \E j, k \in ColorsOf(f) :
    LET e == RulesOf(f)[1]
        cj == dataset[f].colors[j]
        ck == dataset[f].colors[k]
    IN /\ Len(RulesOf(f)) = 1
       /\ e.name # None /\ e.accent # None
       /\ e.name[1] = cj.name /\ e.accent[1] # cj.accent
       /\ e.name[1] \notin {ck.name, ck.identifier} /\ e.accent[1] = ck.accent
       /\ ~RatEq(reps[f][j][e.variable], OriginalValue(cj.hex, e.variable))
       /\ ~RatEq(reps[f][k][e.variable], OriginalValue(ck.hex, e.variable))

----------------------------------------------------------------------------
(* The substitution command.                                               *)

\* The destination: the given dst, or the source stem plus the fixed suffix.
Destination ==
  IF argv.dst = None
  THEN [stem |-> argv.src.stem \o <<"-replaced">>, suffix |-> argv.src.suffix]
  ELSE argv.dst[1]

NoOutputWritten == \A p \in OutputPaths : ~outputs[p].exists

\* The original -> custom pairs of the changed colors, flavor after flavor, each
\* flavor's in the order of its colors.
RECURSIVE ChangedPairs(_)
ChangedPairs(p) ==
  IF p = <<>> THEN <<>>
  ELSE LET cs == Head(p)[2].colors
           changed == SelectSeq(cs, LAMBDA c : c.original # c.custom)
       IN [j \in 1..Len(changed) |-> <<changed[j].original, changed[j].custom>>]
            \o ChangedPairs(Tail(p))

\* t with every occurrence of prev overwritten by new, for prev and new of one
\* length and occurrences of prev that do not overlap.
Everywhere(t, prev, new) ==
  [p \in 1..Len(t) |->
     LET starts == {q \in 1..p : /\ p < q + Len(prev)
                                 /\ q + Len(prev) - 1 <= Len(t)
                                 /\ SubSeq(t, q, q + Len(prev) - 1) = prev}
     IN IF starts = {} THEN t[p] ELSE new[p - (CHOOSE q \in starts : TRUE) + 1]]

\* The pairs applied one after the other, each to the text the one before left.
RECURSIVE Cascade(_, _)
Cascade(t, pairs) ==
  IF pairs = <<>> THEN t
  ELSE LET n == Len(pairs)
       IN Everywhere(Cascade(t, SubSeq(pairs, 1, n - 1)), pairs[n][1], pairs[n][2])

(* C2.  Replace.__call__ substitutes sequentially: it takes the pairs in   *)
(* the order of the merged map (flavor order, then color order) and        *)
(* replaces every occurrence of each original in the text the earlier      *)
(* pairs left; the text written is the cascade of all pairs over the       *)
(* source text, so a value an earlier pair wrote is rewritten by a later   *)
(* pair whose original equals it.                                          *)
C2_ReplaceCascadesInMapOrder ==
  argv.cmd = "replace" =>
    /\ pc \in {"read", "replace", "done"} => colors = ChangedPairs(palette.val)
    /\ pc = "replace" =>
         text = Cascade(files0[argv.src].text, SubSeq(colors, 1, i - 1))
    /\ pc = "done" =>
         /\ files[Destination].exists
         /\ files[Destination].text = Cascade(files0[argv.src].text, colors)

\* The source is one original; an earlier pair turns it into the original of a
\* later pair, and the text written is the later pair's custom.
C2_Witness ==
  /\ argv.cmd = "replace"
  /\ pc = "done"
  /\ \E a, b \in 1..Len(colors) :
       /\ a < b
       /\ files0[argv.src].text = colors[a][1]
       /\ colors[a][2] = colors[b][1]
       /\ colors[b][2] # colors[a][2]
       /\ files[Destination].text = colors[b][2]

(* C3.  When the resolved destination exists as the command starts, the    *)
(* command fails with the destination-exists error before the              *)
(* configuration is loaded, the palette built or the source read, and no   *)
(* file is written: the destination keeps its content.                     *)
C3_ExistingDestinationFailsFirst ==
  (argv.cmd = "replace" /\ files0[Destination].exists) =>
    /\ pc \in {"dst", "failed"}
    /\ pc = "failed" => err = "FileExistsError"
    /\ ~edits.set
    /\ acc = <<>>
    /\ ~palette.set
    /\ text = <<>>
    /\ files = files0
    /\ files[Destination] = files0[Destination]

\* The command has failed on a destination that holds a text, with a readable
\* configuration and a source that exists.
C3_Witness ==
  /\ argv.cmd = "replace"
  /\ pc = "failed"
  /\ err = "FileExistsError"
  /\ conf.readable
  /\ files0[argv.src].exists
  /\ Destination # argv.src
  /\ files[Destination] = File(OldText)

(* C4.  In every run of the substitution command, whatever src and dst     *)
(* are, the source file keeps its content, and the only file the command   *)
(* writes is a destination that did not exist when the run started.        *)
C4_SourceIsNeverModified ==
  argv.cmd = "replace" =>
    /\ files[argv.src] = files0[argv.src]
    /\ \A p \in TextPaths :
         files[p] # files0[p] => (p = Destination /\ ~files0[p].exists)
    /\ NoOutputWritten

\* A run has written a destination that differs from the source text.
C4_Witness ==
  /\ argv.cmd = "replace"
  /\ pc = "done"
  /\ files[Destination].exists
  /\ files[Destination].text # files[argv.src].text
  /\ files[argv.src] = files0[argv.src]

(* C5.  In the default command no output file is written unless the        *)
(* palette of all flavors has been built: a run that fails on loading the  *)
(* configuration or on building a flavor leaves no output file.            *)
C5_NoOutputBeforeWholePalette ==
  /\ ~NoOutputWritten =>
       /\ argv.cmd = "editor"
       /\ err = "none"
       /\ palette.set
       /\ \A f \in 1..Len(dataset) :
            \E k \in 1..Len(palette.val) : palette.val[k][1] = dataset[f].identifier
  /\ pc = "failed" => NoOutputWritten

\* The default command has built one flavor and failed on the next.
C5_Witness ==
  /\ argv.cmd = "editor"
  /\ pc = "failed"
  /\ err = "ValueError"
  /\ Len(acc) = 1
  /\ Len(dataset) = 2
  /\ NoOutputWritten

----------------------------------------------------------------------------
(* The configuration.                                                      *)

ConfRulesOf(k) == {conf.table[k][r] : r \in 1..Len(conf.table[k])}

ConfRules == UNION {ConfRulesOf(k) : k \in DOMAIN conf.table}

BadMode(e) == e.type \notin {"value", "multiply"}

BadChannel(e) ==
  e.variable \notin {"h", "s", "l", "hue", "saturation", "lightness"}

Kind(flavor) == IF flavor.dark THEN "dark" ELSE "light"

\* A rule of flavor f's list, of an unknown channel, matches a color of f.
BadChannelApplies(f) ==
  /\ Kind(dataset[f]) \in DOMAIN conf.table
  /\ \E e \in ConfRulesOf(Kind(dataset[f])) : \E j \in ColorsOf(f) :
       BadChannel(e) /\ Selects(e, dataset[f].colors[j])

(* C6, as claimed.  A configuration with a rule of an unrecognized mode or *)
(* channel loads without error; the error comes in the build, at a flavor  *)
(* one of whose colors the rule matches; without such a color the build    *)
(* raises no such error.                                                   *)
C6_ModeAndChannelAreBothDeferred ==
  (conf.readable /\ \E e \in ConfRules : BadMode(e) \/ BadChannel(e)) =>
    /\ err # "ValidationError"
    /\ (pc = "failed" /\ ~edits.set) => err = "FileExistsError"
    /\ err = "ValueError" => pc = "failed" /\ i <= Len(dataset)

(* C6, amended.  Only the channel is deferred.  A configuration with a     *)
(* rule of an unrecognized mode fails as it is loaded, for the first       *)
(* flavor and before any color is processed, whether the rule matches a    *)
(* color or not.  One whose modes are all recognized loads without error   *)
(* whatever its channels; the build then fails at the first flavor one of  *)
(* whose colors a rule of an unrecognized channel matches, and raises no   *)
(* such error when there is no such color.                                 *)
C6_OnlyChannelIsDeferred ==
  conf.readable =>
    /\ (\E e \in ConfRules : BadMode(e)) =>
         /\ ~edits.set
         /\ acc = <<>>
         /\ pc \in {"dst", "palette", "failed"}
         /\ pc = "failed" => err \in {"FileExistsError", "ValidationError"}
    /\ (\A e \in ConfRules : ~BadMode(e)) =>
         /\ err # "ValidationError"
         /\ (pc = "failed" /\ ~edits.set) => err = "FileExistsError"
    /\ \A f \in BuiltFlavors : ~BadChannelApplies(f)
    /\ err = "ValueError" =>
         /\ pc = "failed"
         /\ edits.set
         /\ i <= Len(dataset)
         /\ BadChannelApplies(i)
    /\ (pc = "failed" /\ edits.set /\ i <= Len(dataset) /\ BadChannelApplies(i)) =>
         err = "ValueError"

\* A flavor has been built with a list that holds a rule of an unknown channel
\* matching none of its colors, and the build has failed on a later flavor.
C6_Witness ==
  /\ pc = "failed"
  /\ err = "ValueError"
  /\ argv.cmd = "replace"
  /\ \E f \in BuiltFlavors : \E e \in ConfRulesOf(Kind(dataset[f])) : BadChannel(e)

(* C8, as claimed.  The build fails whenever the configuration lacks the   *)
(* "dark" key or the "light" key, for every dataset.                       *)
C8_AnyMissingKeyFailsTheBuild ==
  (conf.readable /\ {"dark", "light"} \ DOMAIN conf.table # {}) =>
    /\ ~palette.set
    /\ NoOutputWritten

(* C8, amended.  The build fails whenever the configuration lacks the key  *)
(* of a kind that a flavor of the dataset has, as a dataset with light and *)
(* dark flavors does for either key: the palette is never completed, the   *)
(* lookup of the missing key raises KeyError when the build reaches that   *)
(* flavor, and no file is written.                                         *)
C8_MissingKeyOfAPresentKindFailsTheBuild ==
  (conf.readable /\ \E f \in 1..Len(dataset) : Kind(dataset[f]) \notin DOMAIN conf.table) =>
    /\ ~palette.set
    /\ pc \in {"dst", "palette", "failed"}
    /\ NoOutputWritten
    /\ files = files0
    /\ \A f \in BuiltFlavors : Kind(dataset[f]) \in DOMAIN conf.table
    /\ (pc = "failed" /\ edits.set /\ Kind(dataset[i]) \notin DOMAIN conf.table) =>
         err = "KeyError"

\* With light and dark flavors and no "dark" key, the light flavor has been
\* built and the lookup for the dark one has failed.
C8_Witness ==
  /\ pc = "failed"
  /\ err = "KeyError"
  /\ Len(dataset) = 2
  /\ DOMAIN conf.table = {"light"}
  /\ Len(acc) = 1
  /\ NoOutputWritten

====
